---- MODULE Spec2Model ----
(***************************************************************************)
(* State-machine model of run_simulation (src/simulation.py): the          *)
(* depot->outlet (LG->FPS) day loop, the derivation of the depot daily     *)
(* requirement, and the central->depot (CG->LG) day loop.                  *)
(*                                                                         *)
(* Quantities are whole tons.  Monthly demands are multiples of 30, so     *)
(* Monthly_Demand_tons / 30.0 is exact; the urgency quotient is kept as a  *)
(* fraction and compared by cross-multiplication; the 1e-9 tolerance of    *)
(* the CG loop coincides with "> 0" on whole tons.                         *)
(***************************************************************************)
EXTENDS Integers, Sequences, FiniteSets, TLC

VARIABLES
    pc,                \* position of the run inside run_simulation
    error,             \* "none", or the exception that ended the run
    settings,          \* the Settings parameters (DAYS, TRUCK_CAP, TOT_V, MAX_TRIPS, DEFAULT_LEAD)
    lgs,               \* LGs table, one record per row
    fps_in,            \* FPS table as passed to run_simulation
    vehicles_in,       \* Vehicles table as passed to run_simulation
    fps,               \* the working copy of the FPS table (columns added while preparing)
    vehicles,          \* the working copy of the Vehicles table (columns added while preparing)
    lg_stock,          \* LG_ID -> stock of the LG->FPS phase
    fps_stock,         \* FPS_ID -> stock
    day,               \* loop variable of the current day loop
    needs,             \* the day's sorted candidate list
    k,                 \* position of the dispatch loop in needs
    dispatch_lg_rows,  \* depot->outlet ledger
    stock_rows,        \* stock snapshots
    req_pivot,         \* derived requirement table (index, columns, at)
    lg_stock_cg,       \* LG_ID -> stock of the CG->LG phase
    trips_left,        \* trips left on the current CG day
    pos,               \* position of the CG loop in req_pivot.index
    need_today,        \* unmet requirement of the depot being served
    dispatch_cg_rows   \* central->depot ledger

vars == <<pc, error, settings, lgs, fps_in, vehicles_in, fps, vehicles, lg_stock, fps_stock, day,
          needs, k, dispatch_lg_rows, stock_rows, req_pivot, lg_stock_cg,
          trips_left, pos, need_today, dispatch_cg_rows>>

\* ------------------------------------------------------------------ bounds
MaxDays == 2
MaxTripsPerDay == 2
MaxVehiclesTotal == 2

\* ------------------------------------------------------------------ helpers
Min2(a, b) == IF a <= b THEN a ELSE b
Min3(a, b, c) == Min2(a, Min2(b, c))
Max2(a, b) == IF a >= b THEN a ELSE b

RECURSIVE SumSeq(_)
SumSeq(s) == IF s = <<>> THEN 0 ELSE Head(s) + SumSeq(Tail(s))

RECURSIVE SortedSeq(_)
\* the elements of a finite set of integers in ascending order (Python's sorted)
SortedSeq(S) ==
    IF S = {} THEN <<>>
    ELSE LET m == CHOOSE x \in S : \A y \in S : x <= y
         IN <<m>> \o SortedSeq(S \ {m})

Indices(s) == 1..Len(s)

\* ------------------------------------------------------------------ settings
DAYS == settings.Distribution_Days
TRUCK_CAP == settings.Vehicle_Capacity_tons
TOT_V == settings.Vehicles_Total
MAX_TRIPS == settings.Max_Trips_Per_Vehicle_Per_Day
DEFAULT_LEAD == settings.Default_Lead_Time_days

\* ------------------------------------------------------------------ references
IdRef(i) == [kind |-> "id", id |-> i, name |-> ""]
NameRef(s) == [kind |-> "name", id |-> 0, name |-> s]
NaNRef == [kind |-> "nan", id |-> 0, name |-> ""]

valid_lg_ids == {lgs[i].LG_ID : i \in Indices(lgs)}

\* dict built in row order: the last row that carries the name wins
lgid_by_name(nm) ==
    LET rows == {i \in Indices(lgs) : lgs[i].LG_Name = nm}
    IN IF rows = {} THEN {}
       ELSE {lgs[CHOOSE i \in rows : \A j \in rows : j <= i].LG_ID}

\* returns {id}, or {} for None
normalize_lg_ref(val) ==
    IF val.kind = "nan" THEN {}
    ELSE IF val.kind = "id"
         THEN (IF val.id \in valid_lg_ids THEN {val.id} ELSE {})
         ELSE lgid_by_name(val.name)

\* sorted(set(out)): the set of depot ids the tokens resolve to; a token that
\* resolves to nothing is dropped
parse_lg_list(val) ==
    IF val.isna THEN {}
    ELSE UNION {normalize_lg_ref(val.tokens[i]) : i \in Indices(val.tokens)}

\* ------------------------------------------------------------------ input tables
LGNames == <<"north", "south">>

\* (initial allocation, storage capacity, initial CG-phase stock) of a depot row.
\* The second depot can send out more in a day than it can store: a derived
\* requirement is at most the allocation, so only such a depot has the CG
\* phase run into its storage capacity.
LGProfiles ==
    { [alloc |-> 50, cap |-> 100, cg |-> 0],
      [alloc |-> 40, cap |-> 30,  cg |-> 10] }

LGRow(i, p) ==
    [LG_ID |-> i, LG_Name |-> LGNames[i],
     Initial_Allocation_tons |-> p.alloc,
     Storage_Capacity_tons |-> p.cap,
     Initial_LG_Stock |-> p.cg]

LGTables ==
    { <<LGRow(1, p)>> : p \in LGProfiles }
    \cup { <<LGRow(1, p), LGRow(2, q)>> : p \in LGProfiles, q \in LGProfiles }

\* Lead_Time_days is <<>> for a missing value (NaN) and <<n>> for n days
FPSProfiles ==
    { [ref |-> IdRef(1),         lead |-> <<>>,  max |-> 40],
      [ref |-> IdRef(1),         lead |-> <<5>>, max |-> 30],
      [ref |-> NameRef("south"), lead |-> <<>>,  max |-> 40],
      [ref |-> IdRef(9),         lead |-> <<>>,  max |-> 40],
      [ref |-> NaNRef,           lead |-> <<>>,  max |-> 40] }

FPSRow(i, p) ==
    [FPS_ID |-> i, Linked_LG_ID |-> p.ref,
     Monthly_Demand_tons |-> 300, Max_Capacity_tons |-> p.max,
     Lead_Time_days |-> p.lead]

FPSTables ==
    { <<FPSRow(1, p)>> : p \in FPSProfiles }
    \cup { <<FPSRow(1, p), FPSRow(2, q)>> : p \in FPSProfiles, q \in FPSProfiles }

Tokens(s) == [isna |-> FALSE, tokens |-> s]

VehicleProfiles ==
    { [cap |-> 40, mapped |-> Tokens(<<IdRef(1)>>)],
      [cap |-> 10, mapped |-> Tokens(<<IdRef(1), IdRef(2)>>)],
      [cap |-> 40, mapped |-> Tokens(<<NameRef("south")>>)],
      [cap |-> 40, mapped |-> Tokens(<<IdRef(9)>>)],
      [cap |-> 10, mapped |-> [isna |-> TRUE, tokens |-> <<>>]] }

VehicleRow(i, p) ==
    [Vehicle_ID |-> i, Capacity_tons |-> p.cap, Mapped_LG_IDs |-> p.mapped]

VehicleTables ==
    { <<>> }
    \cup { <<VehicleRow(1, p)>> : p \in VehicleProfiles }
    \cup { <<VehicleRow(1, p), VehicleRow(2, q)>> :
               p \in VehicleProfiles, q \in VehicleProfiles }

TruckCaps == {10, 40}

\* the horizon, the fleet size and the trip cap take their smallest value or
\* the bound
SettingsSet ==
    [Distribution_Days : {1, MaxDays},
     Vehicle_Capacity_tons : TruckCaps,
     Vehicles_Total : {1, MaxVehiclesTotal},
     Max_Trips_Per_Vehicle_Per_Day : {1, MaxTripsPerDay},
     Default_Lead_Time_days : {2}]

SmallestSettings ==
    [Distribution_Days |-> 1, Vehicle_Capacity_tons |-> 10, Vehicles_Total |-> 1,
     Max_Trips_Per_Vehicle_Per_Day |-> 1, Default_Lead_Time_days |-> 2]

\* every outlet reference resolves and every vehicle maps at least one depot
Resolves(l, f, v) ==
    LET ids == {l[i].LG_ID : i \in Indices(l)}
        nms == {l[i].LG_Name : i \in Indices(l)}
        ok(r) == \/ r.kind = "id" /\ r.id \in ids
                 \/ r.kind = "name" /\ r.name \in nms
    IN /\ \A i \in Indices(f) : ok(f[i].Linked_LG_ID)
       /\ \A i \in Indices(v) :
             /\ ~v[i].Mapped_LG_IDs.isna
             /\ \E j \in Indices(v[i].Mapped_LG_IDs.tokens) :
                    ok(v[i].Mapped_LG_IDs.tokens[j])

NoRequirement == [index |-> <<>>, columns |-> {}, at |-> <<>>]

\* The state at entry of run_simulation.  Tables that cannot be resolved end
\* the run before any setting takes effect, so they are paired with one
\* settings table only.
Init ==
    /\ pc = "prepare_fps"
    /\ error = "none"
    /\ lgs \in LGTables
    /\ fps_in \in FPSTables
    /\ vehicles_in \in VehicleTables
    /\ settings \in SettingsSet
    /\ Resolves(lgs, fps_in, vehicles_in) \/ settings = SmallestSettings
    /\ fps = fps_in
    /\ vehicles = vehicles_in
    /\ lg_stock = <<>>
    /\ fps_stock = <<>>
    /\ day = 0
    /\ needs = <<>>
    /\ k = 0
    /\ dispatch_lg_rows = <<>>
    /\ stock_rows = <<>>
    /\ req_pivot = NoRequirement
    /\ lg_stock_cg = <<>>
    /\ trips_left = 0
    /\ pos = 0
    /\ need_today = 0
    /\ dispatch_cg_rows = <<>>

inputs == <<settings, lgs, fps_in, vehicles_in>>
lg_phase == <<lg_stock, fps_stock, day, needs, k, dispatch_lg_rows, stock_rows>>
cg_phase == <<req_pivot, lg_stock_cg, trips_left, pos, need_today, dispatch_cg_rows>>

\* ------------------------------------------------------------------ 1) prepare FPS
\* lines 77-98: lead time default, daily demand, threshold, LG_ID
PreparedFPS ==
    [i \in Indices(fps) |->
        LET r == fps[i]
            lead == IF r.Lead_Time_days = <<>> THEN DEFAULT_LEAD ELSE r.Lead_Time_days[1]
            daily == r.Monthly_Demand_tons \div 30
        IN [FPS_ID |-> r.FPS_ID,
            Linked_LG_ID |-> r.Linked_LG_ID,
            Monthly_Demand_tons |-> r.Monthly_Demand_tons,
            Max_Capacity_tons |-> r.Max_Capacity_tons,
            Lead_Time_days |-> lead,
            Daily_Demand_tons |-> daily,
            Reorder_Threshold_tons |-> daily * lead,
            LG_ID |-> normalize_lg_ref(r.Linked_LG_ID)]]

PrepareFPS ==
    /\ pc = "prepare_fps"
    /\ LET p == PreparedFPS
       IN IF \E i \in Indices(p) : p[i].LG_ID = {}
          THEN /\ pc' = "raised"
               /\ error' = "ValueError: FPS rows couldn't map Linked_LG_ID"
               /\ fps' = fps
          ELSE /\ pc' = "prepare_vehicles"
               /\ error' = error
               /\ fps' = [i \in Indices(p) |->
                             [p[i] EXCEPT !.LG_ID = CHOOSE x \in p[i].LG_ID : TRUE]]
    /\ UNCHANGED <<inputs, vehicles, lg_phase, cg_phase>>

\* ------------------------------------------------------------------ 2) prepare vehicles
\* lines 104-110: an empty table becomes TOT_V vehicles mapped to every depot
FallbackFleet ==
    [i \in 1..TOT_V |->
        [Vehicle_ID |-> i, Capacity_tons |-> TRUCK_CAP,
         Mapped_LG_IDs |-> Tokens([j \in Indices(SortedSeq(valid_lg_ids)) |->
                                      IdRef(SortedSeq(valid_lg_ids)[j])])]]

PreparedVehicles ==
    LET v == IF vehicles = <<>> THEN FallbackFleet ELSE vehicles
    IN [i \in Indices(v) |->
           [Vehicle_ID |-> v[i].Vehicle_ID,
            Capacity_tons |-> v[i].Capacity_tons,
            Mapped_LG_IDs |-> v[i].Mapped_LG_IDs,
            Mapped_LGs_List |-> parse_lg_list(v[i].Mapped_LG_IDs),
            Trips_Used |-> 0]]

\* PrepareVehicles that drops the rows mapping no depot instead of raising
PrepareVehiclesDroppingRows ==
    /\ pc = "prepare_vehicles"
    /\ LET p == PreparedVehicles
       IN vehicles' = SelectSeq(p, LAMBDA v : v.Mapped_LGs_List # {})
    /\ pc' = "init_stocks"
    /\ UNCHANGED <<error, inputs, fps, lg_phase, cg_phase>>

PrepareVehicles ==
    /\ pc = "prepare_vehicles"
    /\ LET p == PreparedVehicles
       IN IF \E i \in Indices(p) : p[i].Mapped_LGs_List = {}
          THEN /\ pc' = "raised"
               /\ error' = "ValueError: vehicles couldn't map any LGs"
               /\ vehicles' = vehicles
          ELSE /\ pc' = "init_stocks"
               /\ error' = error
               /\ vehicles' = p
    /\ UNCHANGED <<inputs, fps, lg_phase, cg_phase>>

\* ------------------------------------------------------------------ 3) LG -> FPS
\* the last row of a depot id, as a dict comprehension over the rows keeps it
LastRow(id) ==
    CHOOSE j \in Indices(lgs) :
        /\ lgs[j].LG_ID = id
        /\ \A h \in Indices(lgs) : lgs[h].LG_ID = id => h <= j

\* lines 158-164
InitStocks ==
    /\ pc = "init_stocks"
    /\ lg_stock' = [id \in valid_lg_ids |-> lgs[LastRow(id)].Initial_Allocation_tons]
    /\ fps_stock' = [id \in {fps[i].FPS_ID : i \in Indices(fps)} |-> 0]
    /\ day' = 1
    /\ pc' = "consume"
    /\ UNCHANGED <<error, inputs, fps, vehicles, needs, k, dispatch_lg_rows,
                   stock_rows, cg_phase>>

\* line 182: (threshold - current) / daily demand as a fraction, 0 without demand
Urgency(r, current) ==
    IF r.Daily_Demand_tons > 0
    THEN [num |-> r.Reorder_Threshold_tons - current, den |-> r.Daily_Demand_tons]
    ELSE [num |-> 0, den |-> 1]

\* a < b on fractions with positive denominators
UrgencyLess(a, b) == a.num * b.den < b.num * a.den

\* ConsumeStock without the floor at zero
ConsumeStockUnfloored(st, demand) == st - demand

\* line 168
ConsumeStock(st, demand) == Max2(0, st - demand)

\* lines 166-168: every outlet consumes its daily demand, floored at zero
Consume ==
    /\ pc = "consume"
    /\ fps_stock' =
          [id \in DOMAIN fps_stock |->
              LET rows == {i \in Indices(fps) : fps[i].FPS_ID = id}
                  RECURSIVE eat(_, _)
                  eat(st, R) ==
                      IF R = {} THEN st
                      ELSE LET i == CHOOSE x \in R : \A y \in R : x <= y
                           IN eat(ConsumeStock(st, fps[i].Daily_Demand_tons), R \ {i})
              IN eat(fps_stock[id], rows)]
    /\ pc' = "needs"
    /\ UNCHANGED <<error, inputs, fps, vehicles, lg_stock, day, needs, k,
                   dispatch_lg_rows, stock_rows, cg_phase>>

\* NeedQty without the outlet's current stock
NeedQtyIgnoringCurrent(max_cap, current, available_at_lg) == Min2(max_cap, available_at_lg)

\* line 180
NeedQty(max_cap, current, available_at_lg) == Min2(max_cap - current, available_at_lg)

\* IsCandidate without the reorder threshold
IsCandidateIgnoringThreshold(current, threshold, need_qty) == need_qty > 0

\* lines 178 and 181: at or below the threshold, and something to ship
IsCandidate(current, threshold, need_qty) == current <= threshold /\ need_qty > 0

\* lines 171-183: the candidates of the day, in FPS table order
RECURSIVE NeedsFrom(_)
NeedsFrom(i) ==
    IF i > Len(fps) THEN <<>>
    ELSE LET r == fps[i]
             current == fps_stock[r.FPS_ID]
             available_at_lg == lg_stock[r.LG_ID]
             need_qty == NeedQty(r.Max_Capacity_tons, current, available_at_lg)
         IN (IF IsCandidate(current, r.Reorder_Threshold_tons, need_qty)
             THEN << [urgency |-> Urgency(r, current), fid |-> r.FPS_ID,
                      lgid |-> r.LG_ID, need_qty |-> need_qty] >>
             ELSE <<>>)
            \o NeedsFrom(i + 1)

\* line 184: list.sort(reverse=True, key=urgency) is stable: descending urgency,
\* equal urgencies keep their order
\* InsertNeed that leaves the list in FPS table order
InsertNeedUnsorted(x, t) == t \o <<x>>

RECURSIVE InsertNeed(_, _)
InsertNeed(x, t) ==
    IF t = <<>> THEN <<x>>
    ELSE IF UrgencyLess(Head(t).urgency, x.urgency)
         THEN <<x>> \o t
         ELSE <<Head(t)>> \o InsertNeed(x, Tail(t))

RECURSIVE SortNeeds(_, _)
SortNeeds(s, acc) ==
    IF s = <<>> THEN acc ELSE SortNeeds(Tail(s), InsertNeed(Head(s), acc))

\* lines 171-187: compute and sort the needs, reset the trip counters
ComputeNeeds ==
    /\ pc = "needs"
    /\ needs' = SortNeeds(NeedsFrom(1), <<>>)
    /\ vehicles' = [i \in Indices(vehicles) |-> [vehicles[i] EXCEPT !.Trips_Used = 0]]
    /\ k' = 1
    /\ pc' = "dispatch"
    /\ UNCHANGED <<error, inputs, fps, lg_stock, fps_stock, day,
                   dispatch_lg_rows, stock_rows, cg_phase>>

\* Qualifies without the trip-cap filter of line 193
QualifiesIgnoringTrips(v, lgid) == lgid \in v.Mapped_LGs_List

\* Qualifies without the mapping filter of line 192
QualifiesIgnoringMapping(v, lgid) == v.Trips_Used < MAX_TRIPS

\* lines 192-193: rows mapped to the depot with trips left
Qualifies(v, lgid) == lgid \in v.Mapped_LGs_List /\ v.Trips_Used < MAX_TRIPS

Cand(lgid) == {i \in Indices(vehicles) : Qualifies(vehicles[i], lgid)}

is_shared(v) == Cardinality(v.Mapped_LGs_List) > 1

\* Chosen without the is_shared sort: the first qualifying row
ChosenFirstCandidate(lgid) ==
    LET c == Cand(lgid)
    IN CHOOSE i \in c : \A j \in c : i <= j

\* lines 198-200: the first row after sorting by is_shared, descending.  pandas
\* sorts the reversed column ascending and reverses the result; numpy's sort of
\* a column of at most 16 rows is an insertion sort, so rows of the same class
\* keep their table order: the first shared row if there is one, else the
\* first row.
Chosen(lgid) ==
    LET c == Cand(lgid)
        lead == IF \E i \in c : is_shared(vehicles[i])
                THEN {i \in c : is_shared(vehicles[i])}
                ELSE c
    IN CHOOSE i \in lead : \A j \in lead : i <= j

\* Qty without the vehicle's capacity
QtyIgnoringCapacity(cap, need_qty, stock) == Min2(need_qty, stock)

\* Qty without the depot's current stock
QtyIgnoringStock(cap, need_qty, stock) == Min2(cap, need_qty)

\* line 204
Qty(cap, need_qty, stock) == Min3(cap, need_qty, stock)

\* lines 190-219: one iteration of the dispatch loop
Dispatch ==
    /\ pc = "dispatch"
    /\ k <= Len(needs)
    /\ LET n == needs[k]
       IN IF Cand(n.lgid) = {}
          THEN UNCHANGED <<dispatch_lg_rows, lg_stock, fps_stock, vehicles>>
          ELSE LET chosen == vehicles[Chosen(n.lgid)]
                   vid == chosen.Vehicle_ID
                   qty == Qty(chosen.Capacity_tons, n.need_qty, lg_stock[n.lgid])
               IN IF qty <= 0
                  THEN UNCHANGED <<dispatch_lg_rows, lg_stock, fps_stock, vehicles>>
                  ELSE /\ dispatch_lg_rows' = Append(dispatch_lg_rows,
                              [Day |-> day, Vehicle_ID |-> vid, LG_ID |-> n.lgid,
                               FPS_ID |-> n.fid, Quantity_tons |-> qty])
                       /\ lg_stock' = [lg_stock EXCEPT ![n.lgid] = @ - qty]
                       /\ fps_stock' = [fps_stock EXCEPT ![n.fid] = @ + qty]
                       /\ vehicles' = [i \in Indices(vehicles) |->
                              IF vehicles[i].Vehicle_ID = vid
                              THEN [vehicles[i] EXCEPT !.Trips_Used = @ + 1]
                              ELSE vehicles[i]]
    /\ k' = k + 1
    /\ UNCHANGED <<pc, error, inputs, fps, day, needs, stock_rows, cg_phase>>

\* lines 222-225: one snapshot per depot, then one per outlet
SnapshotRows ==
    LET lgids == SortedSeq(DOMAIN lg_stock)
        fids == SortedSeq(DOMAIN fps_stock)
    IN [i \in Indices(lgids) |->
           [Day |-> day, Entity_Type |-> "LG", Entity_ID |-> lgids[i],
            Stock_Level_tons |-> lg_stock[lgids[i]]]]
       \o [i \in Indices(fids) |->
           [Day |-> day, Entity_Type |-> "FPS", Entity_ID |-> fids[i],
            Stock_Level_tons |-> fps_stock[fids[i]]]]

\* lines 221-225 and the loop header of line 164
Snapshot ==
    /\ pc = "dispatch"
    /\ k > Len(needs)
    /\ stock_rows' = stock_rows \o SnapshotRows
    /\ IF day < DAYS
       THEN day' = day + 1 /\ pc' = "consume"
       ELSE day' = day /\ pc' = "derive"
    /\ UNCHANGED <<error, inputs, fps, vehicles, lg_stock, fps_stock, needs, k,
                   dispatch_lg_rows, cg_phase>>

\* ------------------------------------------------------------------ 4) requirement
RECURSIVE SumQuantity(_, _, _)
\* groupby(["LG_ID", "Day"])["Quantity_tons"].sum() for one group
SumQuantity(rows, lgid, d) ==
    IF rows = <<>> THEN 0
    ELSE (IF Head(rows).LG_ID = lgid /\ Head(rows).Day = d
          THEN Head(rows).Quantity_tons ELSE 0)
         + SumQuantity(Tail(rows), lgid, d)

\* lines 243-262: the pivot has a row per depot and a column per day that occur
\* in its input, and 0 where a (depot, day) pair of those does not occur
ReqPivot ==
    LET rows == dispatch_lg_rows
        ids == IF rows = <<>> THEN valid_lg_ids
               ELSE {rows[i].LG_ID : i \in Indices(rows)}
        cols == IF rows = <<>> THEN 1..DAYS
                ELSE {rows[i].Day : i \in Indices(rows)}
    IN [index |-> SortedSeq(ids),
        columns |-> cols,
        at |-> [c \in ids \X cols |-> SumQuantity(rows, c[1], c[2])]]

DeriveRequirement ==
    /\ pc = "derive"
    /\ req_pivot' = ReqPivot
    /\ pc' = "start_cg"
    /\ UNCHANGED <<error, inputs, fps, vehicles, lg_phase, lg_stock_cg, trips_left,
                   pos, need_today, dispatch_cg_rows>>

\* ------------------------------------------------------------------ 5) CG -> LG
\* line 277 (the LGs table's capacity column) and capacity.get(lg_id, 0.0)
capacity(lg_id) ==
    IF lg_id \in valid_lg_ids THEN lgs[LastRow(lg_id)].Storage_Capacity_tons ELSE 0

\* free_room without the depot's current stock
free_room_of_empty_depot(lg_id) == Max2(0, capacity(lg_id))

\* lines 284-285
free_room(lg_id) == Max2(0, capacity(lg_id) - lg_stock_cg[lg_id])

\* lines 268-282
StartCG ==
    /\ pc = "start_cg"
    /\ lg_stock_cg' = [id \in valid_lg_ids |-> lgs[LastRow(id)].Initial_LG_Stock]
    /\ day' = 1
    /\ pc' = "cg_day"
    /\ UNCHANGED <<error, inputs, fps, vehicles, lg_stock, fps_stock, needs, k,
                   dispatch_lg_rows, stock_rows, req_pivot, trips_left, pos,
                   need_today, dispatch_cg_rows>>

\* lines 287-288
CGDay ==
    /\ pc = "cg_day"
    /\ day <= DAYS
    /\ trips_left' = TOT_V
    /\ pos' = 1
    /\ pc' = "cg_lg"
    /\ UNCHANGED <<error, inputs, fps, vehicles, lg_phase, req_pivot, lg_stock_cg,
                   need_today, dispatch_cg_rows>>

\* lines 291-292: req_pivot.at raises KeyError for a day that is no column
CGServe ==
    /\ pc = "cg_lg"
    /\ pos <= Len(req_pivot.index)
    /\ LET lgid == req_pivot.index[pos]
       IN IF day \notin req_pivot.columns
          THEN /\ pc' = "raised"
               /\ error' = "KeyError: req_pivot.at"
               /\ need_today' = need_today
          ELSE /\ pc' = "cg_trip"
               /\ error' = error
               /\ need_today' = Max2(0, req_pivot.at[<<lgid, day>>] - lg_stock_cg[lgid])
    /\ UNCHANGED <<inputs, fps, vehicles, lg_phase, req_pivot, lg_stock_cg,
                   trips_left, pos, dispatch_cg_rows>>

\* CGQty without the capacity of a vehicle load
CGQtyIgnoringTruck(need, room) == Min2(need, room)

\* line 297
CGQty(need, room) == Min3(TRUCK_CAP, need, room)

\* lines 294-308: one evaluation of the while condition and one pass of its body
CGTrip ==
    /\ pc = "cg_trip"
    /\ LET lgid == req_pivot.index[pos]
           vid == TOT_V - trips_left + 1
           qty == CGQty(need_today, free_room(lgid))
       IN IF trips_left > 0 /\ need_today > 0 /\ qty > 0
          THEN /\ dispatch_cg_rows' = Append(dispatch_cg_rows,
                      [Day |-> day, Vehicle_ID |-> vid, LG_ID |-> lgid,
                       Quantity_tons |-> qty])
               /\ lg_stock_cg' = [lg_stock_cg EXCEPT ![lgid] = @ + qty]
               /\ trips_left' = trips_left - 1
               /\ need_today' = need_today - qty
               /\ UNCHANGED <<pc, pos>>
          ELSE /\ pos' = pos + 1
               /\ pc' = "cg_lg"
               /\ UNCHANGED <<dispatch_cg_rows, lg_stock_cg, trips_left, need_today>>
    /\ UNCHANGED <<error, inputs, fps, vehicles, lg_phase, req_pivot>>

\* lines 310-311: the body of the day ends once every depot of the pivot is served
CGEndDay ==
    /\ pc = "cg_lg"
    /\ pos > Len(req_pivot.index)
    /\ day' = day + 1
    /\ pc' = "cg_day"
    /\ UNCHANGED <<error, inputs, fps, vehicles, lg_stock, fps_stock, needs, k,
                   dispatch_lg_rows, stock_rows, cg_phase>>

\* lines 313-315
Return ==
    /\ pc = "cg_day"
    /\ day > DAYS
    /\ pc' = "done"
    /\ UNCHANGED <<error, inputs, fps, vehicles, lg_phase, cg_phase>>

Next ==
    \/ PrepareFPS
    \/ PrepareVehicles
    \/ InitStocks
    \/ Consume
    \/ ComputeNeeds
    \/ Dispatch
    \/ Snapshot
    \/ DeriveRequirement
    \/ StartCG
    \/ CGDay
    \/ CGServe
    \/ CGTrip
    \/ CGEndDay
    \/ Return

Spec == Init /\ [][Next]_vars

\* ------------------------------------------------------------------ properties
Prepared == pc \notin {"prepare_fps", "prepare_vehicles", "raised"} \/ lg_stock # <<>>

VehicleIds == {vehicles[i].Vehicle_ID : i \in Indices(vehicles)}

\* the records of a ledger attributed to a vehicle id on a day
TripsOn(rows, vid, d) ==
    Cardinality({i \in Indices(rows) : rows[i].Vehicle_ID = vid /\ rows[i].Day = d})

\* the records of the depot->outlet ledger of an outlet on a day
ServedOn(fid, d) ==
    {i \in Indices(dispatch_lg_rows) :
        dispatch_lg_rows[i].FPS_ID = fid /\ dispatch_lg_rows[i].Day = d}

\* C1: in the depot->outlet ledger no vehicle id has more than
\* Max_Trips_Per_Vehicle_Per_Day records on any day, and during a day's
\* dispatch loop the counter of a vehicle is the number of its records of that
\* day alone (it is 0 when the loop starts, whatever the day before left).
TripCapPerVehiclePerDay ==
    /\ \A i \in Indices(dispatch_lg_rows) :
          TripsOn(dispatch_lg_rows, dispatch_lg_rows[i].Vehicle_ID,
                  dispatch_lg_rows[i].Day) <= MAX_TRIPS
    /\ pc = "dispatch" =>
          \A i \in Indices(vehicles) :
              vehicles[i].Trips_Used = TripsOn(dispatch_lg_rows, vehicles[i].Vehicle_ID, day)

\* a vehicle used up its trips on day 1 and again on day 2
TripCapReachedOnTwoDays ==
    \E vid \in VehicleIds :
        /\ TripsOn(dispatch_lg_rows, vid, 1) = MAX_TRIPS
        /\ TripsOn(dispatch_lg_rows, vid, 2) = MAX_TRIPS

\* C2: every depot->outlet record names a vehicle whose mapped-depot set
\* contains the depot of the record.
RecordsRespectMapping ==
    \A i \in Indices(dispatch_lg_rows) :
        \A j \in Indices(vehicles) :
            vehicles[j].Vehicle_ID = dispatch_lg_rows[i].Vehicle_ID
                => dispatch_lg_rows[i].LG_ID \in vehicles[j].Mapped_LGs_List

\* the day's loop is over; a candidate of a depot that still has stock got
\* nothing because every vehicle mapped to its depot is at the cap, while a
\* vehicle mapped to other depots only still has trips left
UnmappedVehicleLeftIdle ==
    /\ pc = "dispatch"
    /\ k > Len(needs)
    /\ \E n \in Indices(needs) :
          /\ ServedOn(needs[n].fid, day) = {}
          /\ lg_stock[needs[n].lgid] > 0
          /\ \E j \in Indices(vehicles) : needs[n].lgid \in vehicles[j].Mapped_LGs_List
          /\ \A j \in Indices(vehicles) :
                needs[n].lgid \in vehicles[j].Mapped_LGs_List
                    => vehicles[j].Trips_Used >= MAX_TRIPS
          /\ \E j \in Indices(vehicles) :
                /\ needs[n].lgid \notin vehicles[j].Mapped_LGs_List
                /\ vehicles[j].Trips_Used < MAX_TRIPS

\* C3: every depot stock and every outlet stock is >= 0, in the stock maps at
\* every step of the LG->FPS day loop and in every snapshot.
StocksNonNegative ==
    /\ \A id \in DOMAIN lg_stock : lg_stock[id] >= 0
    /\ \A id \in DOMAIN fps_stock : fps_stock[id] >= 0
    /\ \A i \in Indices(stock_rows) : stock_rows[i].Stock_Level_tons >= 0

\* two outlets of one depot were served on the same day although their needs,
\* computed before the day's dispatches, add up to more than the depot held
DepotSharedBeyondItsStock ==
    /\ pc = "dispatch"
    /\ \E a, b \in Indices(needs) :
          /\ a # b
          /\ needs[a].lgid = needs[b].lgid
          /\ ServedOn(needs[a].fid, day) # {}
          /\ ServedOn(needs[b].fid, day) # {}
          /\ needs[a].need_qty + needs[b].need_qty
                > lg_stock[needs[a].lgid]
                  + SumSeq([i \in Indices(dispatch_lg_rows) |->
                        IF dispatch_lg_rows[i].Day = day
                           /\ dispatch_lg_rows[i].LG_ID = needs[a].lgid
                        THEN dispatch_lg_rows[i].Quantity_tons ELSE 0])

\* C4: the stock of an outlet never exceeds its Max_Capacity_tons, in the stock
\* map after every delivery and in every snapshot.
OutletWithinMaxCapacity ==
    /\ \A i \in Indices(fps) :
          fps[i].FPS_ID \in DOMAIN fps_stock
              => fps_stock[fps[i].FPS_ID] <= fps[i].Max_Capacity_tons
    /\ \A i \in Indices(stock_rows) : \A j \in Indices(fps) :
          stock_rows[i].Entity_Type = "FPS" /\ stock_rows[i].Entity_ID = fps[j].FPS_ID
              => stock_rows[i].Stock_Level_tons <= fps[j].Max_Capacity_tons

\* an outlet whose reorder threshold exceeds its max capacity was topped up to
\* exactly its max capacity on a day after the first
FilledToCapacityAboveThreshold ==
    \E j \in Indices(fps) :
        /\ Prepared
        /\ fps[j].Reorder_Threshold_tons > fps[j].Max_Capacity_tons
        /\ day > 1
        /\ pc = "dispatch"
        /\ ServedOn(fps[j].FPS_ID, day) # {}
        /\ fps_stock[fps[j].FPS_ID] = fps[j].Max_Capacity_tons

\* the CG-phase stock of a depot after the first n records of the ledger
CGStockAfterRecords(lgid, n) ==
    lgs[LastRow(lgid)].Initial_LG_Stock
    + SumSeq([i \in 1..n |->
          IF dispatch_cg_rows[i].LG_ID = lgid
          THEN dispatch_cg_rows[i].Quantity_tons ELSE 0])

\* C5: after every central->depot delivery the receiving depot's stock is at
\* most its storage capacity, and the stock map is the initial CG stock plus
\* the deliveries recorded (so a depot without free room got no record).
DepotWithinCapacityAfterDelivery ==
    /\ \A n \in Indices(dispatch_cg_rows) :
          /\ dispatch_cg_rows[n].Quantity_tons > 0
          /\ CGStockAfterRecords(dispatch_cg_rows[n].LG_ID, n)
                <= capacity(dispatch_cg_rows[n].LG_ID)
    /\ \A id \in DOMAIN lg_stock_cg :
          lg_stock_cg[id] = CGStockAfterRecords(id, Len(dispatch_cg_rows))

\* a depot was filled to its capacity while requirement and trips were left
DeliveryCappedByFreeRoom ==
    /\ pc = "cg_trip"
    /\ need_today > 0
    /\ trips_left > 0
    /\ free_room(req_pivot.index[pos]) = 0
    /\ \E n \in Indices(dispatch_cg_rows) :
          /\ dispatch_cg_rows[n].Day = day
          /\ dispatch_cg_rows[n].LG_ID = req_pivot.index[pos]

\* the CG-phase stock of a depot once the deliveries of days 1..d are in
CGStockAfterDay(lgid, d) ==
    lgs[LastRow(lgid)].Initial_LG_Stock
    + SumSeq([i \in Indices(dispatch_cg_rows) |->
          IF dispatch_cg_rows[i].LG_ID = lgid /\ dispatch_cg_rows[i].Day <= d
          THEN dispatch_cg_rows[i].Quantity_tons ELSE 0])

\* C6: when the run returns its ledgers, every depot's CG-phase stock after
\* the deliveries of each day 1..N is at least that day's requirement (a
\* requirement the trips or the storage cannot cover ends the run instead).
RequirementCoveredOnReturn ==
    pc = "done" =>
        \A id \in valid_lg_ids : \A d \in 1..DAYS :
            CGStockAfterDay(id, d) >= SumQuantity(dispatch_lg_rows, id, d)

\* C7: a run whose references all resolve never ends in an exception, and it
\* returns after day N with a requirement for every depot of the pivot and
\* every day 1..N that is the sum of the depot's depot->outlet quantities of
\* that day (0 on a day without any).
ValidRunCompletes ==
    Resolves(lgs, fps_in, vehicles_in) =>
        /\ pc # "raised"
        /\ pc = "done" =>
              /\ day = DAYS + 1
              /\ \A d \in 1..DAYS : \A n \in Indices(req_pivot.index) :
                    /\ d \in req_pivot.columns
                    /\ req_pivot.at[<<req_pivot.index[n], d>>]
                          = SumQuantity(dispatch_lg_rows, req_pivot.index[n], d)

\* the total of a ledger's quantities for a depot
TotalFor(rows, lgid) ==
    SumSeq([i \in Indices(rows) |->
        IF rows[i].LG_ID = lgid THEN rows[i].Quantity_tons ELSE 0])

\* the depot's stock in the snapshot of the last day
FinalSnapshot(lgid) ==
    LET i == CHOOSE j \in Indices(stock_rows) :
                 /\ stock_rows[j].Day = DAYS
                 /\ stock_rows[j].Entity_Type = "LG"
                 /\ stock_rows[j].Entity_ID = lgid
    IN stock_rows[i].Stock_Level_tons

\* C8: at the end of the run, for every depot, central->depot deliveries plus
\* initial allocation minus depot->outlet quantities is the depot's stock in
\* the last day's snapshot.
DepotConservation ==
    pc = "done" =>
        \A id \in valid_lg_ids :
            TotalFor(dispatch_cg_rows, id)
              + lgs[LastRow(id)].Initial_Allocation_tons
              - TotalFor(dispatch_lg_rows, id)
            = FinalSnapshot(id)

\* one depot with capacity 100 and initial stock 50, one outlet with daily demand 10, max
\* capacity 40 and threshold 20, one vehicle of positive capacity mapped to
\* the depot, at least one trip per day
SingleDepotSingleOutlet ==
    /\ Prepared
    /\ Len(lgs) = 1 /\ Len(fps) = 1 /\ Len(vehicles) = 1
    /\ lgs[1].Initial_Allocation_tons = 50
    /\ lgs[1].Storage_Capacity_tons = 100
    /\ fps[1].LG_ID = lgs[1].LG_ID
    /\ fps[1].Daily_Demand_tons = 10
    /\ fps[1].Max_Capacity_tons = 40
    /\ fps[1].Lead_Time_days = 2
    /\ fps[1].Reorder_Threshold_tons = 20
    /\ vehicles[1].Mapped_LGs_List = {lgs[1].LG_ID}
    /\ vehicles[1].Capacity_tons > 0
    /\ MAX_TRIPS >= 1

SnapshotOf(d, type, id) ==
    {stock_rows[i].Stock_Level_tons : i \in
        {j \in Indices(stock_rows) :
            /\ stock_rows[j].Day = d
            /\ stock_rows[j].Entity_Type = type
            /\ stock_rows[j].Entity_ID = id}}

\* C9: in the single depot, single outlet scenario the outlet's stock is 0
\* after the consumption of day 1, day 1 has exactly one depot->outlet record,
\* of quantity min(C, 40, 50), and the snapshots of day 1 show the depot at
\* 50 - min(C, 40, 50) and the outlet at min(C, 40, 50).
ScenarioDayOne ==
    SingleDepotSingleOutlet =>
        LET q == Min3(vehicles[1].Capacity_tons, 40, 50)
            day1 == SelectSeq(dispatch_lg_rows, LAMBDA r : r.Day = 1)
        IN /\ (day = 1 /\ pc \in {"needs", "dispatch"} /\ day1 = <<>>)
                 => fps_stock[fps[1].FPS_ID] = 0
           /\ Len(day1) <= 1
           /\ (stock_rows # <<>> \/ (pc = "dispatch" /\ k > Len(needs))) =>
                 /\ Len(day1) = 1
                 /\ day1[1].Quantity_tons = q
                 /\ day1[1].LG_ID = lgs[1].LG_ID
                 /\ day1[1].FPS_ID = fps[1].FPS_ID
                 /\ day1[1].Vehicle_ID = vehicles[1].Vehicle_ID
           /\ stock_rows # <<>> =>
                 /\ SnapshotOf(1, "LG", lgs[1].LG_ID) = {50 - q}
                 /\ SnapshotOf(1, "FPS", fps[1].FPS_ID) = {q}

\* the scenario has run through day 1 with a vehicle smaller than the need
ScenarioDayOneSnapshot ==
    /\ SingleDepotSingleOutlet
    /\ stock_rows # <<>>
    /\ vehicles[1].Capacity_tons < 40

\* C10: when an outlet reference resolves to no depot or a vehicle maps no
\* depot, the run never gets past the preparation: it ends in a ValueError
\* with no dispatch record and no snapshot, and day 1 never starts.
AbortsBeforeDayOne ==
    ~Resolves(lgs, fps_in, vehicles_in) =>
        /\ pc \in {"prepare_fps", "prepare_vehicles", "raised"}
        /\ pc = "raised" =>
              error \in {"ValueError: FPS rows couldn't map Linked_LG_ID",
                         "ValueError: vehicles couldn't map any LGs"}
        /\ day = 0
        /\ dispatch_lg_rows = <<>>
        /\ dispatch_cg_rows = <<>>
        /\ stock_rows = <<>>

\* the run was aborted for one vehicle row although another row resolves
AbortedForOneBadVehicle ==
    /\ pc = "raised"
    /\ error = "ValueError: vehicles couldn't map any LGs"
    /\ \E i, j \in Indices(vehicles_in) :
          /\ parse_lg_list(vehicles_in[i].Mapped_LG_IDs) # {}
          /\ parse_lg_list(vehicles_in[j].Mapped_LG_IDs) = {}

\* the vehicle ids that occur in a ledger
LedgerVehicleIds(rows) == {rows[i].Vehicle_ID : i \in Indices(rows)}

\* C11: counting the records of both ledgers together, no vehicle id has more
\* than Max_Trips_Per_Vehicle_Per_Day records on any day.
TripCapAcrossLedgers ==
    \A vid \in LedgerVehicleIds(dispatch_lg_rows) \cup LedgerVehicleIds(dispatch_cg_rows) :
        \A d \in 1..DAYS :
            TripsOn(dispatch_lg_rows, vid, d) + TripsOn(dispatch_cg_rows, vid, d)
                <= MAX_TRIPS

\* C12: at the end of every day of the CG->LG phase each depot is charged the
\* day's requirement: the stock carried into the next day is
\* max(0, stock after the day's deliveries - requirement of the day).
CGStockConsumedAtDayEnd ==
    [][(pc = "cg_lg" /\ pc' = "cg_day") =>
          \A id \in DOMAIN lg_stock_cg :
              lg_stock_cg'[id]
                  = Max2(0, lg_stock_cg[id] - SumQuantity(dispatch_lg_rows, id, day))]_vars

\* the row of an outlet in the FPS table, and its position in the day's list
FPSRowOf(fid) == CHOOSE j \in Indices(fps) : fps[j].FPS_ID = fid
NeedPos(fid) == CHOOSE n \in Indices(needs) : needs[n].fid = fid

UrgencyEqual(a, b) == a.num * b.den = b.num * a.den

\* the depot->outlet records of the current day, in ledger order
TodaysRecords == SelectSeq(dispatch_lg_rows, LAMBDA r : r.Day = day)

\* C13: the day's candidates are processed in descending urgency
\* (threshold - stock after consumption) / daily demand, candidates of equal
\* urgency in FPS table order, and the day's records follow that order, so
\* their urgencies never increase.
DispatchInUrgencyOrder ==
    pc = "dispatch" =>
        /\ \A i, j \in Indices(needs) :
              i < j =>
                 /\ ~UrgencyLess(needs[i].urgency, needs[j].urgency)
                 /\ UrgencyEqual(needs[i].urgency, needs[j].urgency)
                       => FPSRowOf(needs[i].fid) < FPSRowOf(needs[j].fid)
        /\ \A i \in k..Len(needs) :
              needs[i].urgency
                  = Urgency(fps[FPSRowOf(needs[i].fid)], fps_stock[needs[i].fid])
        /\ \A a, b \in Indices(TodaysRecords) :
              a < b =>
                 /\ NeedPos(TodaysRecords[a].FPS_ID) < NeedPos(TodaysRecords[b].FPS_ID)
                 /\ ~UrgencyLess(needs[NeedPos(TodaysRecords[a].FPS_ID)].urgency,
                                 needs[NeedPos(TodaysRecords[b].FPS_ID)].urgency)

\* two outlets were served on one day, the more urgent one first although it
\* comes later in the FPS table
MoreUrgentServedFirst ==
    /\ pc = "dispatch"
    /\ \E a, b \in Indices(TodaysRecords) :
          /\ a < b
          /\ FPSRowOf(TodaysRecords[a].FPS_ID) > FPSRowOf(TodaysRecords[b].FPS_ID)
          /\ UrgencyLess(needs[NeedPos(TodaysRecords[b].FPS_ID)].urgency,
                         needs[NeedPos(TodaysRecords[a].FPS_ID)].urgency)

\* the vehicle rows carrying the id of the newest depot->outlet record
RowsOfLastRecord ==
    {i \in Indices(vehicles) :
        vehicles[i].Vehicle_ID = dispatch_lg_rows'[Len(dispatch_lg_rows')].Vehicle_ID}

\* C14: whenever a dispatch is recorded, the vehicle is one that qualified
\* (mapped to the depot, trips left), and if any qualifying vehicle is mapped
\* to more than one depot the recorded vehicle is such a shared one: a
\* single-depot vehicle is recorded only when no shared vehicle qualifies.
SharedVehiclePreferred ==
    [][dispatch_lg_rows' # dispatch_lg_rows =>
          LET lgid == needs[k].lgid
          IN \A i \in RowsOfLastRecord :
                /\ i \in Cand(lgid)
                /\ (\E j \in Cand(lgid) : is_shared(vehicles[j]))
                      => is_shared(vehicles[i])]_vars

\* a record names a shared vehicle of the day's dispatch loop although a
\* single-depot vehicle earlier in the table is mapped to the record's depot
\* and has made no trip that day
SharedChosenOverEarlierDedicated ==
    /\ pc = "dispatch"
    /\ \E r \in Indices(TodaysRecords) : \E i, j \in Indices(vehicles) :
          /\ i < j
          /\ vehicles[j].Vehicle_ID = TodaysRecords[r].Vehicle_ID
          /\ is_shared(vehicles[j])
          /\ ~is_shared(vehicles[i])
          /\ TodaysRecords[r].LG_ID \in vehicles[i].Mapped_LGs_List
          /\ vehicles[i].Trips_Used = 0

\* the trip counters other than those of the rows in R are unchanged
OnlyCountersOf(R) ==
    /\ Len(vehicles') = Len(vehicles)
    /\ \A i \in Indices(vehicles) :
          IF i \in R
          THEN vehicles'[i] = [vehicles[i] EXCEPT !.Trips_Used = @ + 1]
          ELSE vehicles'[i] = vehicles[i]

\* C15: an iteration of the dispatch loop either commits or skips.  It commits
\* exactly when a vehicle qualifies and min(vehicle capacity, candidate's
\* need, depot's current stock) > 0: one record of exactly that quantity is
\* appended, the depot's stock falls and the outlet's stock rises by it, and
\* the counter of the recorded vehicle alone rises by one.  Otherwise no record
\* is appended and no stock and no counter changes.
DispatchCommitsOrSkips ==
    [][(pc = "dispatch" /\ k <= Len(needs) /\ k' = k + 1) =>
          LET n == needs[k]
              new == dispatch_lg_rows'[Len(dispatch_lg_rows')]
          IN IF \E i \in Cand(n.lgid) :
                    Min3(vehicles[i].Capacity_tons, n.need_qty, lg_stock[n.lgid]) > 0
                    /\ i = Chosen(n.lgid)
             THEN /\ dispatch_lg_rows' = Append(dispatch_lg_rows, new)
                  /\ new.Day = day /\ new.LG_ID = n.lgid /\ new.FPS_ID = n.fid
                  /\ \E i \in Cand(n.lgid) :
                        /\ vehicles[i].Vehicle_ID = new.Vehicle_ID
                        /\ new.Quantity_tons
                              = Min3(vehicles[i].Capacity_tons, n.need_qty, lg_stock[n.lgid])
                        /\ OnlyCountersOf({i})
                  /\ lg_stock' = [lg_stock EXCEPT ![n.lgid] = @ - new.Quantity_tons]
                  /\ fps_stock' = [fps_stock EXCEPT ![n.fid] = @ + new.Quantity_tons]
             ELSE UNCHANGED <<dispatch_lg_rows, lg_stock, fps_stock, vehicles>>]_vars

\* on one day a candidate took the depot's whole stock in one record, and a
\* later candidate of that depot was skipped for quantity 0 although a vehicle
\* mapped to the depot still had trips left
CommittedThenSkipped ==
    /\ pc = "dispatch"
    /\ k > Len(needs)
    /\ \E a, b \in Indices(needs) :
          /\ a < b
          /\ needs[a].lgid = needs[b].lgid
          /\ ServedOn(needs[a].fid, day) # {}
          /\ ServedOn(needs[b].fid, day) = {}
          /\ needs[b].need_qty > 0
          /\ lg_stock[needs[b].lgid] = 0
          /\ Cand(needs[b].lgid) # {}

\* what the central->depot ledger delivered to a depot on the current day
DeliveredToday(lgid) == SumQuantity(dispatch_cg_rows, lgid, day)

\* requirement of the current day minus the stock the depot started the day with
DeficitAtDayStart(lgid) ==
    SumQuantity(dispatch_lg_rows, lgid, day) - (lg_stock_cg[lgid] - DeliveredToday(lgid))

\* C16: on each day of the CG->LG phase the depots are served in descending
\* (requirement of the day - stock): when the day's trips have run out, no
\* depot got a delivery that day while a depot with a larger deficit, and with
\* free room, got none.
MostDeficientDepotFirst ==
    (pc = "cg_lg" /\ pos > Len(req_pivot.index) /\ trips_left = 0) =>
        \A a, b \in valid_lg_ids :
            ~ /\ DeficitAtDayStart(a) < DeficitAtDayStart(b)
              /\ DeliveredToday(a) > 0
              /\ DeliveredToday(b) = 0
              /\ free_room(b) > 0

RECURSIVE RequirementFrom(_, _)
\* the requirement of a depot summed over the days d..DAYS
RequirementFrom(lgid, d) ==
    IF d > DAYS THEN 0
    ELSE SumQuantity(dispatch_lg_rows, lgid, d) + RequirementFrom(lgid, d + 1)

\* the requirement of the rest of the horizon that the depot's stock does not cover
FutureUnmetNeed(lgid) == RequirementFrom(lgid, day) - lg_stock_cg[lgid]

\* C17: a day of the CG->LG phase ends with trips left over only when no
\* depot is eligible for pre-stocking, that is when no depot has both
\* positive future unmet need and positive free room (leftover trips are
\* handed out round-robin, one load at a time, until trips or eligible depots
\* are exhausted).
LeftoverTripsPreStock ==
    (pc = "cg_lg" /\ pos > Len(req_pivot.index) /\ trips_left > 0) =>
        \A id \in valid_lg_ids :
            ~(FutureUnmetNeed(id) > 0 /\ free_room(id) > 0)

\* the central->depot records of a day, in ledger order
CGRecordsOn(d) == SelectSeq(dispatch_cg_rows, LAMBDA r : r.Day = d)

\* C18: on every day the central->depot ledger holds at most Vehicles_Total
\* records over all depots, each of a quantity in (0, Vehicle_Capacity_tons],
\* and the vehicle ids of the day's records are distinct values of
\* 1..Vehicles_Total.
CGDayWithinFleet ==
    \A d \in 1..DAYS :
        /\ Len(CGRecordsOn(d)) <= TOT_V
        /\ \A i \in Indices(CGRecordsOn(d)) :
              /\ CGRecordsOn(d)[i].Quantity_tons > 0
              /\ CGRecordsOn(d)[i].Quantity_tons <= TRUCK_CAP
              /\ CGRecordsOn(d)[i].Vehicle_ID \in 1..TOT_V
        /\ \A i, j \in Indices(CGRecordsOn(d)) :
              i # j => CGRecordsOn(d)[i].Vehicle_ID # CGRecordsOn(d)[j].Vehicle_ID

\* a day used every trip of a fleet of more than one vehicle, with a full
\* load among them, and left requirement uncovered
CGFleetUsedUp ==
    /\ pc = "cg_trip"
    /\ TOT_V > 1
    /\ trips_left = 0
    /\ need_today > 0
    /\ Len(CGRecordsOn(day)) = TOT_V
    /\ \E i \in Indices(CGRecordsOn(day)) : CGRecordsOn(day)[i].Quantity_tons = TRUCK_CAP

\* C19: an outlet has at most one depot->outlet record per day, the record
\* carries at most the capacity of its vehicle, and an outlet served today had
\* a stock at or below its reorder threshold after the day's consumption.
OneLoadPerOutletPerDay ==
    /\ \A i \in Indices(dispatch_lg_rows) :
          /\ Cardinality(ServedOn(dispatch_lg_rows[i].FPS_ID, dispatch_lg_rows[i].Day)) = 1
          /\ \A j \in Indices(vehicles) :
                vehicles[j].Vehicle_ID = dispatch_lg_rows[i].Vehicle_ID
                    => dispatch_lg_rows[i].Quantity_tons <= vehicles[j].Capacity_tons
    /\ pc = "dispatch" =>
          \A r \in Indices(TodaysRecords) :
              fps_stock[TodaysRecords[r].FPS_ID] - TodaysRecords[r].Quantity_tons
                  <= fps[FPSRowOf(TodaysRecords[r].FPS_ID)].Reorder_Threshold_tons

\* the day's loop is over: an outlet got one load smaller than its need, its
\* depot still has stock and a vehicle mapped to the depot still has trips
OneLoadDespiteIdleVehicle ==
    /\ pc = "dispatch"
    /\ k > Len(needs)
    /\ \E n \in Indices(needs) : \E r \in ServedOn(needs[n].fid, day) :
          /\ dispatch_lg_rows[r].Quantity_tons < needs[n].need_qty
          /\ lg_stock[needs[n].lgid] > 0
          /\ \E j \in Cand(needs[n].lgid) : vehicles[j].Capacity_tons > 0

====
